---- MODULE Spec2Model ----
(***************************************************************************)
(* DMARC report pipeline of src/dmarc_processor.py:                        *)
(*   _extract_files -> _parse_dmarc_xml -> _generate_analytics             *)
(* driven by process_files.                                                *)
(*                                                                         *)
(* Conventions.  A Python None text is the string "None".  A source IP is  *)
(* a number, 0 standing for an absent source_ip.  A rate is an integer     *)
(* number of hundredths of a percent (66.67 is 6667).  A Python dict is a  *)
(* function over its keys; where the code depends on the insertion order   *)
(* of a dict (ip_data) the key order is kept in a sequence next to it.     *)
(***************************************************************************)
EXTENDS Integers, Sequences, FiniteSets, TLC

VARIABLES
    pc,          \* position of the running call
    acc,         \* the local counters of _generate_analytics
    cur,         \* the report whose records are being accumulated
    last,        \* the record accumulated last (<<>> before the first)
    given,       \* reports of the list taken so far
    taken,       \* records accumulated so far
    analytics,   \* the value returned by _generate_analytics (<<>> before)
    xml,         \* the XML file given to _parse_dmarc_xml
    parsed,      \* what _parse_dmarc_xml did with it (<<>> before)
    file_paths,  \* process_files: the paths given
    fs,          \* the files on disk: path -> content
    file_idx,    \* process_files: paths unwrapped so far
    extracted,   \* what the last _extract_files call returned
    depth,       \* how deep the last _extract_files call nested calls of itself
    xml_files,   \* process_files: the XML paths collected
    xml_idx,     \* process_files: XML paths parsed so far
    reports,     \* process_files: the reports parsed
    parse_errors,\* process_files: the paths whose parse raised
    result       \* what process_files returned (<<>> before)

aggVars == <<acc, cur, last, given, taken, analytics>>

parseVars == <<xml, parsed>>

pipeVars == <<file_paths, fs, file_idx, extracted, depth, xml_files, xml_idx, reports, parse_errors, result>>

vars == <<pc, aggVars, parseVars, pipeVars>>

None == "None"

(***************************************************************************)
(* Bounds of the model.                                                    *)
(***************************************************************************)
MaxReports == 2       \* reports given to one aggregation
MaxRecords == 2       \* records accumulated in one aggregation (SpecAgg)
MaxSources == 21      \* distinct source IPs of one aggregation (SpecTop)
MaxSpecial == 2       \* sources of SpecTop that differ from the usual one
MaxRepeats == 1       \* records of SpecTop for a source that already has one
MaxMissing == 2       \* elements left out of one XML file (SpecParse)
MaxFiles == 2         \* paths given to process_files (Spec)
MaxNesting == 12      \* .gz suffixes of one file name (SpecUnwrap)

(***************************************************************************)
(* Program constants.                                                      *)
(***************************************************************************)
TopSources == 20           \* ip_list[:20]
TopChecked == 10           \* ip_list[:10]
WarnBelow == 8000          \* dmarc_compliance < 80
HighBelow == 5000          \* compliance_rate < 50
HighAbove == 10            \* count > 10
DaySecs == 86400           \* seconds of one calendar day (strftime '%Y-%m-%d')
\* datetime.fromtimestamp raises beyond the platform's range (year 9999 or
\* the C library's limit); the model places that limit inside the integers
\* of the model checker.
MaxTimestamp == 2000000000

Min(a, b) == IF a < b THEN a ELSE b

(***************************************************************************)
(* Python dict helpers.                                                    *)
(***************************************************************************)
EmptyDict == [k \in {} |-> 0]

DictGetDefault(d, k, default) == default

DictGet(d, k, default) == IF k \in DOMAIN d THEN d[k] ELSE default

DictSet(d, k, v) == [x \in (DOMAIN d) \cup {k} |-> IF x = k THEN v ELSE d[x]]

(***************************************************************************)
(* round(p / c * 100, 2) if c > 0 else 0, in hundredths of a percent.      *)
(* Python rounds the double to the nearest hundredth, ties to even.        *)
(***************************************************************************)
Rate(p, c) ==
    IF c > 0
    THEN LET n == p * 10000
             q == n \div c
             r == n % c
         IN  IF 2 * r < c THEN q
             ELSE IF 2 * r > c THEN q + 1
             ELSE IF q % 2 = 0 THEN q ELSE q + 1
    ELSE 0

(***************************************************************************)
(* datetime.fromtimestamp(t).strftime('%Y-%m-%d'): the calendar day of t,  *)
(* as the number of the day; <<>> when fromtimestamp raises.               *)
(***************************************************************************)
FromTimestamp(t) == IF t > MaxTimestamp THEN <<>> ELSE <<t \div DaySecs>>

(***************************************************************************)
(* An XML file, as far as _parse_dmarc_xml reads it.                       *)
(*   wf       the text is well-formed XML                                  *)
(*   nsd      the elements are in the namespace urn:ietf:params:xml:ns:    *)
(*            dmarc-2.0 (the namespaced variant); unprefixed otherwise     *)
(*   extras   every container also has children the parser does not read  *)
(*            (email, adkim, envelope_from, ...)                           *)
(*   missing  the elements left out of the head of the file and of its     *)
(*            first record; later records are complete                     *)
(*   garbage  the numeric elements, of the same places, whose text is no   *)
(*            number                                                       *)
(*   the texts of the elements; records holds one entry per <record>       *)
(* A place is 0 for the head of the file and i for its i-th record.        *)
(***************************************************************************)
Containers == {"report_metadata", "date_range", "policy_published",
               "row", "policy_evaluated", "identifiers"}

Leaves == {"org_name", "report_id", "begin", "end", "domain", "p",
           "source_ip", "count", "disposition", "dkim", "spf", "header_from"}

Kids(tag) ==
    CASE tag = "report_metadata" -> {"org_name", "report_id", "date_range"}
      [] tag = "date_range" -> {"begin", "end"}
      [] tag = "policy_published" -> {"domain", "p"}
      [] tag = "row" -> {"source_ip", "count", "policy_evaluated"}
      [] tag = "policy_evaluated" -> {"disposition", "dkim", "spf"}
      [] tag = "identifiers" -> {"header_from"}
      [] OTHER -> {}

Has(doc, place, tag) == ~(place <= 1 /\ tag \in doc.missing)

IsGarbage(doc, place, tag) == place <= 1 /\ tag \in doc.garbage

\* bool(element): an Element without children is false
Truthy(doc, place, tag) == doc.extras \/ \E k \in Kids(tag) : Has(doc, place, k)

\* element.find('tag'): "elem" or "none"
FindPlain(doc, place, tag) ==
    IF ~doc.nsd /\ Has(doc, place, tag) THEN "elem" ELSE "none"

\* element.find('ns:tag', ns): with ns = {} (unprefixed root) the prefix is
\* not in the map and ElementPath raises SyntaxError
FindMapped(doc, place, tag) ==
    IF ~doc.nsd THEN "raise"
    ELSE IF Has(doc, place, tag) THEN "elem" ELSE "none"

\* element.find('tag') or element.find('ns:tag', ns)
ElementOr(doc, place, tag) ==
    IF FindPlain(doc, place, tag) = "elem" /\ Truthy(doc, place, tag)
    THEN "elem"
    ELSE FindMapped(doc, place, tag)

\* the text of a leaf as the file holds it
TextOf(doc, place, tag) ==
    IF place = 0 THEN doc[tag] ELSE doc.records[place][tag]

\* find_text(element, 'tag'): <<text>>, or <<>> for None
TextPlain(doc, place, tag) ==
    IF ~doc.nsd /\ Has(doc, place, tag) THEN <<TextOf(doc, place, tag)>> ELSE <<>>

\* find_text(element, 'ns:tag', ns): with ns = {} it calls
\* element.find('ns:tag'), which matches no child and does not raise
TextMapped(doc, place, tag) ==
    IF doc.nsd /\ Has(doc, place, tag) THEN <<TextOf(doc, place, tag)>> ELSE <<>>

\* find_text(element, 'tag') or find_text(element, 'ns:tag', ns)
TextOr(doc, place, tag) ==
    IF TextPlain(doc, place, tag) # <<>>
    THEN TextPlain(doc, place, tag)
    ELSE TextMapped(doc, place, tag)

\* the value of a text field of the result
TextField(doc, place, tag, none) ==
    IF TextOr(doc, place, tag) = <<>> THEN none ELSE TextOr(doc, place, tag)[1]

\* int(find_text(...) or find_text(...) or 0): <<n>>, or <<>> when int raises
IntOr(doc, place, tag) ==
    IF TextOr(doc, place, tag) = <<>> THEN <<0>>
    ELSE IF IsGarbage(doc, place, tag) THEN <<>>
    ELSE TextOr(doc, place, tag)

\* the body of the loop over the records: <<record>>, or <<>> when it raises
ParseRecord(doc, i) ==
    IF \/ ElementOr(doc, i, "row") # "elem"
       \/ IntOr(doc, i, "count") = <<>>
       \/ ElementOr(doc, i, "policy_evaluated") # "elem"
       \/ ElementOr(doc, i, "identifiers") # "elem"
    THEN <<>>
    ELSE << [ source_ip |-> TextField(doc, i, "source_ip", 0),
              count |-> IntOr(doc, i, "count")[1],
              disposition |-> TextField(doc, i, "disposition", None),
              dkim |-> TextField(doc, i, "dkim", None),
              spf |-> TextField(doc, i, "spf", None),
              header_from |-> TextField(doc, i, "header_from", None) ] >>

\* root.findall('record') or root.findall('ns:record', ns): the number of
\* records found, or -1 when the second findall raises
FindAllRecords(doc) ==
    IF ~doc.nsd /\ Len(doc.records) > 0 THEN Len(doc.records)
    ELSE IF ~doc.nsd THEN -1
    ELSE Len(doc.records)

(***************************************************************************)
(* _parse_dmarc_xml.  The result is [kind |-> "report", report |-> r],     *)
(* [kind |-> "none"] for a returned None, or [kind |-> "raise"].           *)
(***************************************************************************)
ParseRaise == [kind |-> "raise"]

ParseNone == [kind |-> "none"]

ParseDmarcXml(doc) ==
    IF ~doc.wf THEN ParseRaise
    ELSE IF ElementOr(doc, 0, "report_metadata") = "raise" THEN ParseRaise
    ELSE IF ElementOr(doc, 0, "report_metadata") = "none" THEN ParseNone
    ELSE IF \/ ElementOr(doc, 0, "date_range") # "elem"
            \/ IntOr(doc, 0, "begin") = <<>>
            \/ IntOr(doc, 0, "end") = <<>>
            \/ ElementOr(doc, 0, "policy_published") # "elem"
            \/ FindAllRecords(doc) < 0
            \/ \E i \in 1..Len(doc.records) : ParseRecord(doc, i) = <<>>
         THEN ParseRaise
    ELSE [ kind |-> "report",
           report |->
             [ org_name |-> TextField(doc, 0, "org_name", None),
               report_id |-> TextField(doc, 0, "report_id", None),
               domain |-> TextField(doc, 0, "domain", None),
               policy |-> TextField(doc, 0, "p", None),
               date_begin |-> IntOr(doc, 0, "begin")[1],
               date_end |-> IntOr(doc, 0, "end")[1],
               records |-> [ i \in 1..Len(doc.records) |-> ParseRecord(doc, i)[1] ] ] ]

(***************************************************************************)
(* _generate_analytics: the counters before the first report.              *)
(* date_range['earliest'] / ['latest'] are <<>> for None, <<t>> otherwise. *)
(* raised records that a statement of the loop raised.                     *)
(***************************************************************************)
EmptyAcc ==
    [ total_messages |-> 0,
      dkim_pass |-> 0, dkim_fail |-> 0,
      spf_pass |-> 0, spf_fail |-> 0,
      dmarc_pass |-> 0, dmarc_fail |-> 0,
      ip_data |-> EmptyDict, ip_keys |-> <<>>,
      source_orgs |-> EmptyDict,
      domains |-> {},
      dispositions |-> EmptyDict,
      earliest |-> <<>>, latest |-> <<>>,
      daily_stats |-> EmptyDict,
      raised |-> FALSE ]

EmptyIpStats == [count |-> 0, dkim_pass |-> 0, spf_pass |-> 0, dmarc_pass |-> 0]

EmptyDayStats == [total |-> 0, dkim_pass |-> 0, spf_pass |-> 0, dmarc_pass |-> 0]

\* the head of the loop over reports: source_orgs, domains, date_range
StartReport(a, report) ==
    [ a EXCEPT
        !.source_orgs = DictSet(a.source_orgs, report.org_name,
                                DictGet(a.source_orgs, report.org_name, 0) + 1),
        !.domains = a.domains \cup {report.domain},
        !.earliest = IF a.earliest = <<>> \/ report.date_begin < a.earliest[1]
                     THEN <<report.date_begin>> ELSE a.earliest,
        !.latest = IF a.latest = <<>> \/ report.date_end > a.latest[1]
                   THEN <<report.date_end>> ELSE a.latest ]

\* record['dkim'] == 'pass'
DkimPasses(record) == record.dkim = "pass"

\* record['spf'] == 'pass'
SpfPasses(record) == record.spf = "pass"

\* record['dkim'] == 'pass' and record['spf'] == 'pass'
DmarcPassesEither(record) == record.dkim = "pass" \/ record.spf = "pass"

DmarcPasses(record) == record.dkim = "pass" /\ record.spf = "pass"

\* the else branch of the DKIM statistics
DkimFailAddOnlyFail(a, record) ==
    IF record.dkim = "fail" THEN a.dkim_fail + record.count ELSE a.dkim_fail

DkimFailAdd(a, record) ==
    IF DkimPasses(record) THEN a.dkim_fail ELSE a.dkim_fail + record.count

\* the body of the loop over the records of one report
AccumulateRecord(a, report, record) ==
    LET count == record.count
        ip == record.source_ip
        old == DictGet(a.ip_data, ip, EmptyIpStats)
        new == [ count |-> old.count + count,
                 dkim_pass |-> old.dkim_pass + (IF DkimPasses(record) THEN count ELSE 0),
                 spf_pass |-> old.spf_pass + (IF SpfPasses(record) THEN count ELSE 0),
                 dmarc_pass |-> old.dmarc_pass + (IF DmarcPasses(record) THEN count ELSE 0) ]
        day == FromTimestamp(report.date_begin)
        b == [ a EXCEPT
                 !.total_messages = a.total_messages + count,
                 !.dkim_pass = IF DkimPasses(record) THEN @ + count ELSE @,
                 !.dkim_fail = DkimFailAdd(a, record),
                 !.spf_pass = IF SpfPasses(record) THEN @ + count ELSE @,
                 !.spf_fail = IF SpfPasses(record) THEN @ ELSE @ + count,
                 !.dmarc_pass = IF DmarcPasses(record) THEN @ + count ELSE @,
                 !.dmarc_fail = IF DmarcPasses(record) THEN @ ELSE @ + count,
                 !.ip_data = DictSet(a.ip_data, ip, new),
                 !.ip_keys = IF ip \in DOMAIN a.ip_data THEN @ ELSE Append(@, ip),
                 !.dispositions = DictSet(a.dispositions, record.disposition,
                                    DictGet(a.dispositions, record.disposition, 0) + count) ]
    IN  IF day = <<>>
        THEN [b EXCEPT !.raised = TRUE]
        ELSE LET d == DictGet(b.daily_stats, day[1], EmptyDayStats)
             IN  [ b EXCEPT !.daily_stats = DictSet(b.daily_stats, day[1],
                     [ total |-> d.total + count,
                       dkim_pass |-> d.dkim_pass + (IF DkimPasses(record) THEN count ELSE 0),
                       spf_pass |-> d.spf_pass + (IF SpfPasses(record) THEN count ELSE 0),
                       dmarc_pass |-> d.dmarc_pass + (IF DmarcPasses(record) THEN count ELSE 0) ]) ]

(***************************************************************************)
(* The per-IP list, in the insertion order of ip_data.  The reverse-DNS    *)
(* name of an entry is advisory and depends on the network; it is left out.*)
(***************************************************************************)
IpInfo(a, ip) ==
    LET stats == a.ip_data[ip]
    IN  [ ip |-> ip,
          count |-> stats.count,
          dkim_pass |-> stats.dkim_pass,
          spf_pass |-> stats.spf_pass,
          dmarc_pass |-> stats.dmarc_pass,
          compliance_rate |-> Rate(stats.dmarc_pass, stats.count) ]

IpListUnsorted(a) == [i \in 1..Len(a.ip_keys) |-> IpInfo(a, a.ip_keys[i])]

\* list.sort(key=count, reverse=True): stable, equal keys keep their order.
\* InsertDesc puts x behind every element whose count is not smaller.
RECURSIVE InsertDescTiesFirst(_, _)
InsertDescTiesFirst(sorted, x) ==
    IF sorted = <<>> THEN <<x>>
    ELSE IF Head(sorted).count > x.count
         THEN <<Head(sorted)>> \o InsertDescTiesFirst(Tail(sorted), x)
         ELSE <<x>> \o sorted

RECURSIVE InsertDesc(_, _)
InsertDesc(sorted, x) ==
    IF sorted = <<>> THEN <<x>>
    ELSE IF Head(sorted).count >= x.count
         THEN <<Head(sorted)>> \o InsertDesc(Tail(sorted), x)
         ELSE <<x>> \o sorted

RECURSIVE SortByCount(_)
SortByCount(list) ==
    IF list = <<>> THEN <<>>
    ELSE InsertDesc(SortByCount(SubSeq(list, 1, Len(list) - 1)), list[Len(list)])

\* a[:n]
Slice(list, n) == SubSeq(list, 1, Min(n, Len(list)))

RECURSIVE SortedKeysDescending(_)
SortedKeysDescending(keys) ==
    IF keys = {} THEN <<>>
    ELSE LET m == CHOOSE k \in keys : \A j \in keys : k >= j
         IN  <<m>> \o SortedKeysDescending(keys \ {m})

\* sorted(daily_stats.keys()) and the timeline entries built from it
RECURSIVE SortedKeys(_)
SortedKeys(keys) ==
    IF keys = {} THEN <<>>
    ELSE LET m == CHOOSE k \in keys : \A j \in keys : k <= j
         IN  <<m>> \o SortedKeys(keys \ {m})

Timeline(a) ==
    LET days == SortedKeys(DOMAIN a.daily_stats)
    IN  [ i \in 1..Len(days) |->
            LET stats == a.daily_stats[days[i]]
            IN  [ date |-> days[i],
                  total |-> stats.total,
                  dkim_pass |-> stats.dkim_pass,
                  spf_pass |-> stats.spf_pass,
                  dmarc_pass |-> stats.dmarc_pass,
                  compliance_rate |-> Rate(stats.dmarc_pass, stats.total) ] ]

(***************************************************************************)
(* _identify_threats.  A finding is its level and, for a 'high' finding,   *)
(* the IP its title names (0 otherwise).                                   *)
(***************************************************************************)
Finding(level, ip) == [level |-> level, ip |-> ip]

SuspiciousFromTen(ip_info) ==
    ip_info.compliance_rate < HighBelow /\ ip_info.count >= HighAbove

Suspicious(ip_info) ==
    ip_info.compliance_rate < HighBelow /\ ip_info.count > HighAbove

RECURSIVE HighFindings(_)
HighFindings(list) ==
    IF list = <<>> THEN <<>>
    ELSE (IF Suspicious(Head(list)) THEN <<Finding("high", Head(list).ip)>> ELSE <<>>)
         \o HighFindings(Tail(list))

IdentifyThreats(ip_list, dmarc_compliance) ==
    LET threats == (IF dmarc_compliance < WarnBelow
                    THEN <<Finding("warning", 0)>> ELSE <<>>)
                   \o HighFindings(Slice(ip_list, TopChecked))
    IN  IF threats = <<>> THEN <<Finding("success", 0)>> ELSE threats

(***************************************************************************)
(* The tail of _generate_analytics, from the IP list to the return value.  *)
(* The value is [raised |-> TRUE] when a fromtimestamp of the summary      *)
(* raises.  A date of the summary is <<>> for None.                        *)
(***************************************************************************)
SummaryDate(t) == IF t = <<>> \/ t[1] = 0 THEN <<>> ELSE FromTimestamp(t[1])

DateRaises(t) == t # <<>> /\ t[1] # 0 /\ FromTimestamp(t[1]) = <<>>

Finalize(a, nreports) ==
    IF DateRaises(a.earliest) \/ DateRaises(a.latest)
    THEN [raised |-> TRUE]
    ELSE LET ip_list == SortByCount(IpListUnsorted(a))
             dmarc_compliance == Rate(a.dmarc_pass, a.total_messages)
         IN  [ raised |-> FALSE,
               summary |-> [ total_messages |-> a.total_messages,
                             total_reports |-> nreports,
                             domains |-> a.domains,
                             date_range |-> [ start |-> SummaryDate(a.earliest),
                                              end |-> SummaryDate(a.latest) ] ],
               authentication |->
                   [ dkim |-> [ pass |-> a.dkim_pass, fail |-> a.dkim_fail,
                                pass_rate |-> Rate(a.dkim_pass, a.total_messages) ],
                     spf |-> [ pass |-> a.spf_pass, fail |-> a.spf_fail,
                               pass_rate |-> Rate(a.spf_pass, a.total_messages) ],
                     dmarc_compliance |-> dmarc_compliance ],
               dispositions |-> a.dispositions,
               source_organizations |-> a.source_orgs,
               top_sources |-> Slice(ip_list, TopSources),
               timeline |-> Timeline(a),
               threats |-> IdentifyThreats(ip_list, dmarc_compliance) ]

(***************************************************************************)
(* Inputs of the aggregator.                                               *)
(***************************************************************************)
TooLarge == MaxTimestamp + 1

Results == {"pass", "fail", None}

ReportMenu ==
    { [org_name |-> o, domain |-> "example.com", date_begin |-> t, date_end |-> t] :
        o \in {"org1", "org2"}, t \in {0, DaySecs, TooLarge} }

RecordMenu ==
    [ source_ip : {0, 1}, count : {1, 2}, disposition : {"none", "reject"},
      dkim : Results, spf : {"pass", "fail"} ]

(***************************************************************************)
(* SpecAgg: _generate_analytics, one statement group per step.             *)
(*   pc = "reports": at the head of the loop over reports                  *)
(*   pc = "records": at the head of the loop over the records of cur       *)
(*   pc = "returned" / "raised": the call has returned / raised            *)
(***************************************************************************)
PipeIdle ==
    /\ file_paths = <<>>
    /\ fs = EmptyDict
    /\ file_idx = 0
    /\ extracted = <<>>
    /\ depth = 0
    /\ xml_files = <<>>
    /\ xml_idx = 0
    /\ reports = <<>>
    /\ parse_errors = <<>>
    /\ result = <<>>

AggInit ==
    /\ PipeIdle
    /\ pc = "reports"
    /\ acc = EmptyAcc
    /\ cur = <<>>
    /\ last = <<>>
    /\ given = 0
    /\ taken = 0
    /\ analytics = <<>>
    /\ xml = <<>>
    /\ parsed = <<>>

TakeReport(report) ==
    /\ pc = "reports"
    /\ given < MaxReports
    /\ cur' = report
    /\ acc' = StartReport(acc, report)
    /\ given' = given + 1
    /\ pc' = "records"
    /\ UNCHANGED <<last, taken, analytics, parseVars, pipeVars>>

TakeRecord(record) ==
    /\ pc = "records"
    /\ acc' = AccumulateRecord(acc, cur, record)
    /\ last' = record
    /\ taken' = taken + 1
    /\ pc' = IF acc'.raised THEN "raised" ELSE "records"
    /\ UNCHANGED <<cur, given, analytics, parseVars, pipeVars>>

NextReport == \E report \in ReportMenu : TakeReport(report)

NextRecord ==
    /\ taken < MaxRecords
    /\ \E record \in RecordMenu : TakeRecord(record)

EndRecords ==
    /\ pc = "records"
    /\ pc' = "reports"
    /\ UNCHANGED <<acc, cur, last, given, taken, analytics, parseVars, pipeVars>>

Return ==
    /\ pc = "reports"
    /\ given >= 1
    /\ analytics' = Finalize(acc, given)
    /\ pc' = IF analytics'.raised THEN "raised" ELSE "returned"
    /\ UNCHANGED <<acc, cur, last, given, taken, parseVars, pipeVars>>

AggNext == NextReport \/ NextRecord \/ EndRecords \/ Return

SpecAgg == AggInit /\ [][AggNext]_vars

(***************************************************************************)
(* SpecTop: the same call on one report with many sources.  The sources    *)
(* are numbered in the order of their first record; a record is for a new  *)
(* source or, MaxRepeats times, for the newest one when that is a usual    *)
(* one.  The usual source sends UsualCount messages that pass; at most     *)
(* MaxSpecial sources differ from it.                                      *)
(***************************************************************************)
UsualCount == HighAbove + 1

UsualStats == [count |-> UsualCount, dkim_pass |-> UsualCount,
               spf_pass |-> UsualCount, dmarc_pass |-> UsualCount]

TopReport == [org_name |-> "org1", domain |-> "example.com",
              date_begin |-> DaySecs, date_end |-> DaySecs]

TopRecordMenu ==
    { r \in [ source_ip : 1..MaxSources, count : {10, 11, 12}, disposition : {"none"},
              dkim : {"pass", "fail"}, spf : {"pass"} ] :
        r.dkim = "pass" => r.count >= UsualCount }

Special(a) == {ip \in DOMAIN a.ip_data : a.ip_data[ip] # UsualStats}

TopFirst == given = 0 /\ TakeReport(TopReport)

TopRecord ==
    \E record \in TopRecordMenu :
        /\ pc = "records"
        /\ \/ record.source_ip = Len(acc.ip_keys) + 1
           \/ /\ record.source_ip = Len(acc.ip_keys)
              /\ taken - Len(acc.ip_keys) < MaxRepeats
              /\ acc.ip_data[record.source_ip] = UsualStats
        /\ Cardinality(Special(AccumulateRecord(acc, cur, record))) <= MaxSpecial
        /\ TakeRecord(record)

TopNext == TopFirst \/ TopRecord \/ EndRecords \/ Return

SpecTop == AggInit /\ [][TopNext]_vars

(***************************************************************************)
(* Inputs of the parser: the complete file in both variants, with up to    *)
(* MaxMissing elements left out, a numeric text that is no number, and     *)
(* zero to two records.                                                    *)
(***************************************************************************)
FileRecords ==
    << [ source_ip |-> 1, count |-> 2, disposition |-> "none",
         dkim |-> "pass", spf |-> "pass", header_from |-> "example.com" ],
       [ source_ip |-> 2, count |-> 1, disposition |-> "reject",
         dkim |-> "fail", spf |-> "pass", header_from |-> "example.com" ] >>

MakeDoc(wf, nsd, extras, missing, garbage, nrec, begin) ==
    [ wf |-> wf, nsd |-> nsd, extras |-> extras,
      missing |-> missing, garbage |-> garbage,
      org_name |-> "org1", report_id |-> "r1", domain |-> "example.com", p |-> "none",
      begin |-> begin, end |-> begin,
      records |-> SubSeq(FileRecords, 1, nrec) ]

ParseDocs ==
    { MakeDoc(wf, nsd, extras, missing, garbage, nrec, DaySecs) :
        wf \in BOOLEAN, nsd \in BOOLEAN, extras \in BOOLEAN,
        missing \in {m \in SUBSET (Containers \cup Leaves) : Cardinality(m) <= MaxMissing},
        garbage \in {{}, {"count"}, {"begin"}},
        nrec \in 0..2 }

(***************************************************************************)
(* SpecParse: one call of _parse_dmarc_xml.                                *)
(***************************************************************************)
ParseInit ==
    /\ PipeIdle
    /\ pc = "parsing"
    /\ xml \in ParseDocs
    /\ parsed = <<>>
    /\ acc = EmptyAcc
    /\ cur = <<>>
    /\ last = <<>>
    /\ given = 0
    /\ taken = 0
    /\ analytics = <<>>

ParseCall ==
    /\ pc = "parsing"
    /\ parsed' = ParseDmarcXml(xml)
    /\ pc' = "parsed"
    /\ UNCHANGED <<xml, aggVars, pipeVars>>

ParseSpecNext == ParseCall

SpecParse == ParseInit /\ [][ParseSpecNext]_vars

(***************************************************************************)
(* File names and files.  A name is its stem followed by its dot-separated *)
(* suffixes: <<"t", "tar", "gz">> is t.tar.gz.  A path is a directory      *)
(* ("work" is the extraction directory) and a name.  A content is          *)
(*   [kind |-> "xml", doc |-> d]       an XML text                         *)
(*   [kind |-> "zip", entries |-> e]   a ZIP archive, e: name -> content   *)
(*   [kind |-> "tar", entries |-> e]   a TAR archive                       *)
(*   [kind |-> "gz", inner |-> c]      the gzip of content c               *)
(*   [kind |-> "junk"]                 bytes of no such format, or none    *)
(***************************************************************************)
XmlFile(d) == [kind |-> "xml", doc |-> d]

ZipFile(e) == [kind |-> "zip", entries |-> e]

TarFile(e) == [kind |-> "tar", entries |-> e]

GzFile(c) == [kind |-> "gz", inner |-> c]

Junk == [kind |-> "junk"]

Path(dir, name) == [dir |-> dir, name |-> name]

WorkPath(name) == Path("work", name)

\* filename.endswith('.' + '.'.join(suffix)), case-sensitive
EndsWith(name, suffix) ==
    /\ Len(name) > Len(suffix)
    /\ SubSeq(name, Len(name) - Len(suffix) + 1, Len(name)) = suffix

\* str.lower() of a suffix
LowerToken(t) ==
    CASE t \in {"XML", "Xml"} -> "xml"
      [] t \in {"ZIP", "Zip"} -> "zip"
      [] t \in {"GZ", "Gz"} -> "gz"
      [] t \in {"TAR", "Tar"} -> "tar"
      [] OTHER -> t

\* app.py allowed_file: the last suffix, lower-cased, is an allowed one
AllowedFile(name) ==
    Len(name) > 1 /\ LowerToken(name[Len(name)]) \in {"xml", "zip", "gz", "tar"}

\* the branch of _extract_files a file name selects
Branch(name) ==
    IF EndsWith(name, <<"zip">>) THEN "zip"
    ELSE IF EndsWith(name, <<"gz">>) THEN "gz"
    ELSE IF EndsWith(name, <<"tar">>) \/ EndsWith(name, <<"tar", "gz">>) THEN "tar"
    ELSE IF EndsWith(name, <<"xml">>) THEN "xml"
    ELSE "unknown"

\* _find_xml_files(extract_dir): the files under the directory named *.xml
FindXmlFiles(f) ==
    {q \in DOMAIN f : q.dir = "work" /\ EndsWith(q.name, <<"xml">>)}

\* a file written in the extraction directory
WriteFile(f, name, content) ==
    [q \in (DOMAIN f) \cup {WorkPath(name)} |->
        IF q = WorkPath(name) THEN content ELSE f[q]]

\* extractall(extract_dir): every entry written, replacing a file of its name
ExtractAll(f, entries) ==
    [q \in (DOMAIN f) \cup {WorkPath(n) : n \in DOMAIN entries} |->
        IF q.dir = "work" /\ q.name \in DOMAIN entries THEN entries[q.name] ELSE f[q]]

\* tarfile.open(path, 'r:*') reads a tar, plain or compressed
IsTar(c) ==
    \/ c.kind = "tar"
    \/ c.kind = "gz" /\ c.inner.kind = "tar"

TarEntries(c) == IF c.kind = "tar" THEN c.entries ELSE c.inner.entries

(***************************************************************************)
(* _extract_files(file_path, extract_dir) on the files f: the files after  *)
(* the call and the set of paths it returns (their order is the order of   *)
(* os.walk where the directory is scanned, which is unspecified).  An      *)
(* exception of the archive library is caught and leaves the list empty.   *)
(***************************************************************************)
Extracted(f, paths) == [fs |-> f, paths |-> paths]

OnExtractErrorRescan(f) == Extracted(f, FindXmlFiles(f))

\* the except handler: xml_files is returned as it is, empty, where the
\* archive library raises
OnExtractError(f) == Extracted(f, {})

RECURSIVE ExtractFiles(_, _)
ExtractFiles(path, f) ==
    LET name == path.name
        c == f[path]
        branch == Branch(name)
    IN  CASE branch = "zip" ->
               IF c.kind = "zip"
               THEN LET f2 == ExtractAll(f, c.entries)
                    IN  Extracted(f2, FindXmlFiles(f2))
               ELSE OnExtractError(f)
          [] branch = "gz" ->
               LET out == SubSeq(name, 1, Len(name) - 1)
               IN  IF c.kind # "gz"
                   THEN OnExtractError(WriteFile(f, out, Junk))
                   ELSE LET f2 == WriteFile(f, out, c.inner)
                        IN  IF EndsWith(out, <<"xml">>)
                            THEN Extracted(f2, {WorkPath(out)})
                            ELSE ExtractFiles(WorkPath(out), f2)
          [] branch = "tar" ->
               IF IsTar(c)
               THEN LET f2 == ExtractAll(f, TarEntries(c))
                    IN  Extracted(f2, FindXmlFiles(f2))
               ELSE OnExtractError(f)
          [] branch = "xml" -> Extracted(f, {path})
          [] OTHER -> Extracted(f, {})

\* the calls of _extract_files nested in the call on path: the .gz branch
\* calls it again on its output unless that ends in .xml, and passes no count
RECURSIVE NestedCalls(_, _)
NestedCalls(path, f) ==
    LET name == path.name
        c == f[path]
        out == SubSeq(name, 1, Len(name) - 1)
    IN  IF Branch(name) = "gz" /\ c.kind = "gz" /\ ~EndsWith(out, <<"xml">>)
        THEN 1 + NestedCalls(WorkPath(out), WriteFile(f, out, c.inner))
        ELSE 0

\* the orders in which a set of paths can be listed
Orders(paths) ==
    {o \in [1..Cardinality(paths) -> paths] :
        \A a, b \in 1..Cardinality(paths) : a # b => o[a] # o[b]}

(***************************************************************************)
(* process_files.                                                          *)
(***************************************************************************)
\* ET.parse of a file that holds no XML text raises like an ill-formed one
NotXml == MakeDoc(FALSE, FALSE, FALSE, {}, {}, 0, 0)

DocOf(content) == IF content.kind = "xml" THEN content.doc ELSE NotXml

\* _generate_analytics(reports), the loops run to their end
RECURSIVE AccumulateRecords(_, _, _)
AccumulateRecords(a, report, n) ==
    IF n = 0 THEN a
    ELSE LET b == AccumulateRecords(a, report, n - 1)
         IN  IF b.raised THEN b ELSE AccumulateRecord(b, report, report.records[n])

RECURSIVE AccumulateReports(_, _)
AccumulateReports(list, n) ==
    IF n = 0 THEN EmptyAcc
    ELSE LET b == AccumulateReports(list, n - 1)
         IN  IF b.raised THEN b
             ELSE AccumulateRecords(StartReport(b, list[n]), list[n], Len(list[n].records))

GenerateAnalytics(list) ==
    LET a == AccumulateReports(list, Len(list))
    IN  IF a.raised THEN [raised |-> TRUE] ELSE Finalize(a, Len(list))

\* the three values process_files returns with an 'error'
NoXmlFound == [error |-> "No valid DMARC XML files found", files_processed |-> 0]

NoReportParsed(errors) ==
    [error |-> "No valid DMARC reports could be parsed",
     parse_errors |-> errors, files_processed |-> 0]

ProcessingFailedBare(e) == [error |-> "Processing failed"]

\* the handler of an exception e that reaches the outer try of process_files
ProcessingFailed(e) == [error |-> "Processing failed", files_processed |-> 0]

\* the analytics with files_processed and parse_errors
Success(an, n, errors) ==
    [ summary |-> an.summary,
      authentication |-> an.authentication,
      dispositions |-> an.dispositions,
      source_organizations |-> an.source_organizations,
      top_sources |-> an.top_sources,
      timeline |-> an.timeline,
      threats |-> an.threats,
      files_processed |-> n,
      parse_errors |-> errors ]

ExtractNext ==
    /\ pc = "extract"
    /\ file_idx < Len(file_paths)
    /\ LET r == ExtractFiles(file_paths[file_idx + 1], fs)
       IN  /\ fs' = r.fs
           /\ \E o \in Orders(r.paths) :
                /\ extracted' = o
                /\ xml_files' = xml_files \o o
    /\ depth' = NestedCalls(file_paths[file_idx + 1], fs)
    /\ file_idx' = file_idx + 1
    /\ UNCHANGED <<pc, file_paths, xml_idx, reports, parse_errors, result, aggVars, parseVars>>

NoFilesFound ==
    /\ pc = "extract"
    /\ file_idx = Len(file_paths)
    /\ xml_files = <<>>
    /\ result' = NoXmlFound
    /\ pc' = "done"
    /\ UNCHANGED <<file_paths, fs, file_idx, extracted, depth, xml_files, xml_idx, reports,
                   parse_errors, aggVars, parseVars>>

StartParsing ==
    /\ pc = "extract"
    /\ file_idx = Len(file_paths)
    /\ xml_files # <<>>
    /\ pc' = "parse"
    /\ UNCHANGED <<file_paths, fs, file_idx, extracted, depth, xml_files, xml_idx, reports,
                   parse_errors, result, aggVars, parseVars>>

ParseNext ==
    /\ pc = "parse"
    /\ xml_idx < Len(xml_files)
    /\ xml' = DocOf(fs[xml_files[xml_idx + 1]])
    /\ parsed' = ParseDmarcXml(xml')
    /\ reports' = IF parsed'.kind = "report" THEN Append(reports, parsed'.report)
                  ELSE reports
    /\ parse_errors' = IF parsed'.kind = "raise"
                       THEN Append(parse_errors, xml_files[xml_idx + 1])
                       ELSE parse_errors
    /\ xml_idx' = xml_idx + 1
    /\ UNCHANGED <<pc, file_paths, fs, file_idx, extracted, depth, xml_files, result, aggVars>>

NoReports ==
    /\ pc = "parse"
    /\ xml_idx = Len(xml_files)
    /\ reports = <<>>
    /\ result' = NoReportParsed(parse_errors)
    /\ pc' = "done"
    /\ UNCHANGED <<file_paths, fs, file_idx, extracted, depth, xml_files, xml_idx, reports,
                   parse_errors, aggVars, parseVars>>

Analyze ==
    /\ pc = "parse"
    /\ xml_idx = Len(xml_files)
    /\ reports # <<>>
    /\ LET an == GenerateAnalytics(reports)
       IN  result' = IF an.raised THEN ProcessingFailed("OSError")
                     ELSE Success(an, Len(reports), parse_errors)
    /\ pc' = "done"
    /\ UNCHANGED <<file_paths, fs, file_idx, extracted, depth, xml_files, xml_idx, reports,
                   parse_errors, aggVars, parseVars>>

(***************************************************************************)
(* Inputs of process_files: up to MaxFiles of the files below, either      *)
(* saved in the extraction directory by the upload endpoint (which keeps   *)
(* only the allowed file types) or lying elsewhere.                        *)
(***************************************************************************)
GoodDoc == MakeDoc(TRUE, FALSE, TRUE, {}, {}, 2, DaySecs)

GoodNsDoc == MakeDoc(TRUE, TRUE, FALSE, {}, {}, 1, 0)

NoMetaDoc == MakeDoc(TRUE, FALSE, TRUE, {"report_metadata"}, {}, 1, DaySecs)

NoMetaNsDoc == MakeDoc(TRUE, TRUE, TRUE, {"report_metadata"}, {}, 1, DaySecs)

CorruptDoc == MakeDoc(FALSE, FALSE, TRUE, {}, {}, 1, DaySecs)

LateDoc == MakeDoc(TRUE, FALSE, TRUE, {}, {}, 1, TooLarge)

File(name, content) == [name |-> name, content |-> content]

FileMenu ==
    { File(<<"a", "xml">>, XmlFile(GoodDoc)),
      File(<<"b", "xml">>, XmlFile(NoMetaDoc)),
      File(<<"c", "xml">>, XmlFile(NoMetaNsDoc)),
      File(<<"d", "xml">>, XmlFile(CorruptDoc)),
      File(<<"e", "xml">>, XmlFile(LateDoc)),
      File(<<"f", "XML">>, XmlFile(GoodNsDoc)),
      File(<<"r", "zip">>, ZipFile(<<"report", "xml">> :> XmlFile(GoodNsDoc))),
      File(<<"s", "Zip">>, ZipFile(<<"report", "xml">> :> XmlFile(GoodNsDoc))),
      File(<<"g", "xml", "gz">>, GzFile(XmlFile(GoodDoc))),
      File(<<"h", "xml", "GZ">>, GzFile(XmlFile(GoodDoc))),
      File(<<"t", "tar", "gz">>,
           GzFile(TarFile(<<"x", "xml">> :> XmlFile(GoodDoc)
                          @@ <<"y", "xml">> :> XmlFile(GoodNsDoc)))),
      File(<<"u", "tar">>, TarFile(<<"x", "xml">> :> XmlFile(GoodNsDoc))),
      File(<<"v", "TAR">>, TarFile(<<"x", "xml">> :> XmlFile(GoodNsDoc))),
      File(<<"i", "zip">>, Junk),
      File(<<"k", "xml", "gz">>, Junk),
      File(<<"n", "txt">>, XmlFile(GoodDoc)) }

Batches ==
    UNION { { b \in [1..n -> FileMenu] :
                \A a1, a2 \in 1..n : a1 # a2 => b[a1].name # b[a2].name } :
            n \in 0..MaxFiles }

Init ==
    /\ pc = "extract"
    /\ \E b \in Batches, dir \in {"work", "inbox"} :
         /\ dir = "work" => \A i \in 1..Len(b) : AllowedFile(b[i].name)
         /\ file_paths = [i \in 1..Len(b) |-> Path(dir, b[i].name)]
         /\ fs = [q \in {Path(dir, b[i].name) : i \in 1..Len(b)} |->
                    b[CHOOSE i \in 1..Len(b) : b[i].name = q.name].content]
    /\ file_idx = 0
    /\ extracted = <<>>
    /\ depth = 0
    /\ xml_files = <<>>
    /\ xml_idx = 0
    /\ reports = <<>>
    /\ parse_errors = <<>>
    /\ result = <<>>
    /\ xml = <<>>
    /\ parsed = <<>>
    /\ acc = EmptyAcc
    /\ cur = <<>>
    /\ last = <<>>
    /\ given = 0
    /\ taken = 0
    /\ analytics = <<>>

Next == ExtractNext \/ NoFilesFound \/ StartParsing \/ ParseNext \/ NoReports \/ Analyze

Spec == Init /\ [][Next]_vars

(***************************************************************************)
(* Inputs of _extract_files that are gzip files of gzip files: a name with *)
(* 0..MaxNesting .gz suffixes, holding an inner file wrapped in at most    *)
(* as many gzip layers (with fewer layers than suffixes the last           *)
(* decompression meets bytes that are no gzip).  A plain XML file may      *)
(* follow it in the batch.                                                 *)
(***************************************************************************)
RECURSIVE Wrapped(_, _)
Wrapped(content, n) == IF n = 0 THEN content ELSE GzFile(Wrapped(content, n - 1))

GzName(name, n) == name \o [i \in 1..n |-> "gz"]

InnerMenu ==
    { File(<<"z", "xml">>, XmlFile(GoodDoc)),
      File(<<"z", "xml">>, XmlFile(CorruptDoc)),
      File(<<"z", "tar">>, TarFile(<<"x", "xml">> :> XmlFile(GoodNsDoc))),
      File(<<"z", "tar">>, Junk),
      File(<<"z", "zip">>, ZipFile(<<"report", "xml">> :> XmlFile(GoodDoc))),
      File(<<"z", "zip">>, Junk),
      File(<<"z">>, XmlFile(GoodDoc)) }

Follower == File(<<"a", "xml">>, XmlFile(GoodNsDoc))

UnwrapInit ==
    /\ pc = "extract"
    /\ \E inner \in InnerMenu, n \in 0..MaxNesting, dir \in {"work", "inbox"},
          followed \in BOOLEAN :
         \E layers \in 0..n :
            LET first == File(GzName(inner.name, n), Wrapped(inner.content, layers))
                b == IF followed THEN <<first, Follower>> ELSE <<first>>
            IN  /\ file_paths = [i \in 1..Len(b) |-> Path(dir, b[i].name)]
                /\ fs = [q \in {Path(dir, b[i].name) : i \in 1..Len(b)} |->
                           b[CHOOSE i \in 1..Len(b) : b[i].name = q.name].content]
    /\ file_idx = 0
    /\ extracted = <<>>
    /\ depth = 0
    /\ xml_files = <<>>
    /\ xml_idx = 0
    /\ reports = <<>>
    /\ parse_errors = <<>>
    /\ result = <<>>
    /\ xml = <<>>
    /\ parsed = <<>>
    /\ acc = EmptyAcc
    /\ cur = <<>>
    /\ last = <<>>
    /\ given = 0
    /\ taken = 0
    /\ analytics = <<>>

SpecUnwrap == UnwrapInit /\ [][Next]_vars

(***************************************************************************)
(* SpecReports: _generate_analytics as a function of the list of reports.  *)
(* The lists hold 1..MaxReports reports of 0..MaxRecords records each.     *)
(***************************************************************************)
ListRecordMenu ==
    { [source_ip |-> 1, count |-> 1, disposition |-> "none", dkim |-> "pass", spf |-> "pass"],
      [source_ip |-> 1, count |-> 2, disposition |-> "reject", dkim |-> "fail", spf |-> "pass"],
      [source_ip |-> 2, count |-> 2, disposition |-> "none", dkim |-> "pass", spf |-> "pass"],
      [source_ip |-> 0, count |-> 1, disposition |-> None, dkim |-> None, spf |-> "fail"] }

ListRecords == UNION {[1..n -> ListRecordMenu] : n \in 0..MaxRecords}

ListReportMenu ==
    { [org_name |-> o, report_id |-> "r1", domain |-> "example.com", policy |-> "none",
       date_begin |-> t, date_end |-> t, records |-> recs] :
        o \in {"org1", "org2"}, t \in {0, 1, DaySecs, TooLarge}, recs \in ListRecords }

ReportLists == UNION {[1..n -> ListReportMenu] : n \in 1..MaxReports}

ReportsInit ==
    /\ pc = "aggregate"
    /\ reports \in ReportLists
    /\ file_paths = <<>>
    /\ fs = EmptyDict
    /\ file_idx = 0
    /\ extracted = <<>>
    /\ depth = 0
    /\ xml_files = <<>>
    /\ xml_idx = 0
    /\ parse_errors = <<>>
    /\ result = <<>>
    /\ xml = <<>>
    /\ parsed = <<>>
    /\ acc = EmptyAcc
    /\ cur = <<>>
    /\ last = <<>>
    /\ given = 0
    /\ taken = 0
    /\ analytics = <<>>

Aggregate ==
    /\ pc = "aggregate"
    /\ analytics' = GenerateAnalytics(reports)
    /\ acc' = AccumulateReports(reports, Len(reports))
    /\ pc' = IF analytics'.raised THEN "raised" ELSE "returned"
    /\ UNCHANGED <<cur, last, given, taken, parseVars, pipeVars>>

SpecReports == ReportsInit /\ [][Aggregate]_vars

(***************************************************************************)
(* Claims about the aggregator.                                            *)
(***************************************************************************)
Balanced(a) ==
    /\ a.dkim_pass + a.dkim_fail = a.total_messages
    /\ a.spf_pass + a.spf_fail = a.total_messages
    /\ a.dmarc_pass + a.dmarc_fail = a.total_messages

\* a step that accumulates one record
RecordStep == taken' = taken + 1

\* C3: after every accumulated record, and so at the end of the loops,
\* dkim_pass + dkim_fail, spf_pass + spf_fail and dmarc_pass + dmarc_fail
\* each equal total_messages, and total_messages has grown by exactly the
\* count of each record accumulated (it is the sum of all counts); the
\* returned pass and fail counts add up to the returned total.
C3_CountersBalance ==
    /\ [](Balanced(acc))
    /\ [](pc = "returned" =>
            /\ analytics.authentication.dkim.pass + analytics.authentication.dkim.fail
                 = analytics.summary.total_messages
            /\ analytics.authentication.spf.pass + analytics.authentication.spf.fail
                 = analytics.summary.total_messages
            /\ analytics.summary.total_messages = acc.total_messages)
    /\ [][ /\ RecordStep => acc'.total_messages = acc.total_messages + last'.count
           /\ ~RecordStep => acc'.total_messages = acc.total_messages ]_vars

\* C3 witness: two records accumulated, one with an absent dkim result, and
\* both DKIM counters non-zero.
C3_Witness ==
    /\ taken = 2
    /\ last.dkim = None
    /\ acc.dkim_pass > 0
    /\ acc.dkim_fail > 0
    /\ acc.total_messages = 3

BothPass(record) == <<record.dkim, record.spf>> = <<"pass", "pass">>

IpDmarcPass(a, ip) == IF ip \in DOMAIN a.ip_data THEN a.ip_data[ip].dmarc_pass ELSE 0

DayDmarcPass(a, day) == IF day \in DOMAIN a.daily_stats THEN a.daily_stats[day].dmarc_pass ELSE 0

\* C4: a record's count goes to dmarc_pass iff its dkim and its spf result
\* are both exactly 'pass', and to dmarc_fail otherwise; the dmarc_pass
\* counter of the record's source IP and of the report's day follow the
\* same rule.
C4_DmarcPassIffBoth ==
    [][ RecordStep =>
          LET r == last'
              passed == IF BothPass(r) THEN r.count ELSE 0
              failed == IF BothPass(r) THEN 0 ELSE r.count
          IN  /\ acc'.dmarc_pass = acc.dmarc_pass + passed
              /\ acc'.dmarc_fail = acc.dmarc_fail + failed
              /\ IpDmarcPass(acc', r.source_ip) = IpDmarcPass(acc, r.source_ip) + passed
              /\ ~acc'.raised =>
                   LET day == cur.date_begin \div DaySecs
                   IN  DayDmarcPass(acc', day) = DayDmarcPass(acc, day) + passed ]_vars

\* C4 witness: a record with dkim absent and spf 'pass' has been counted as
\* a failure after another record was counted as a pass.
C4_Witness ==
    /\ taken = 2
    /\ last.dkim = None
    /\ last.spf = "pass"
    /\ acc.dmarc_pass > 0
    /\ acc.dmarc_fail = last.count
    /\ ~acc.raised

\* the place of a source in the order of first encounter
RECURSIVE PosIn(_, _)
PosIn(seq, x) == IF seq = <<>> \/ Head(seq) = x THEN 1 ELSE 1 + PosIn(Tail(seq), x)

Sources == DOMAIN acc.ip_data

InTop(ip) == \E i \in 1..Len(analytics.top_sources) : analytics.top_sources[i].ip = ip

\* C5: top_sources holds min(20, number of distinct source IPs) sources
\* with their counts, in descending order of count, sources of equal count
\* in the order of their first record, and no source left out has a higher
\* count than one that is in.  (The order is stated for neighbours; it
\* carries over to every pair, and makes the sources distinct.)
C5_TopSources ==
    pc = "returned" =>
        LET top == analytics.top_sources
        IN  /\ Len(top) = Min(20, Cardinality(Sources))
            /\ \A i \in 1..Len(top) :
                 /\ top[i].ip \in Sources
                 /\ top[i].count = acc.ip_data[top[i].ip].count
            /\ \A i \in 1..(Len(top) - 1) :
                 /\ top[i].count >= top[i + 1].count
                 /\ top[i].count = top[i + 1].count =>
                      PosIn(acc.ip_keys, top[i].ip) < PosIn(acc.ip_keys, top[i + 1].ip)
            /\ \A ip \in Sources :
                 ~InTop(ip) => acc.ip_data[ip].count <= top[Len(top)].count

\* C5 witness: 21 sources, the last one with the highest count is first of
\* the 20 returned, two sources of equal count are both returned and a
\* source is left out.
C5_Witness ==
    /\ pc = "returned"
    /\ Cardinality(Sources) = 21
    /\ Len(analytics.top_sources) = 20
    /\ analytics.top_sources[1].ip = 21
    /\ analytics.top_sources[2].count = analytics.top_sources[3].count
    /\ \E ip \in Sources : ~InTop(ip)

\* the rank of a source by volume: sources of higher count, or of equal
\* count and earlier first record, come before it
Rank(ip) ==
    1 + Cardinality({ o \in Sources :
          \/ acc.ip_data[o].count > acc.ip_data[ip].count
          \/ /\ acc.ip_data[o].count = acc.ip_data[ip].count
             /\ PosIn(acc.ip_keys, o) < PosIn(acc.ip_keys, ip) })

Flagged(ip) ==
    /\ acc.ip_data[ip].count > 10
    /\ Rate(acc.ip_data[ip].dmarc_pass, acc.ip_data[ip].count) < 5000
    /\ Rank(ip) <= 10

IsHigh(f) == f.level = "high"

\* C6: threats is never empty; a 'warning' is first iff dmarc_compliance is
\* below 80 and stands nowhere else; the 'high' findings are exactly one
\* for each of the 10 highest-volume sources with compliance_rate < 50 and
\* count > 10, in volume order; 'success' is present iff there is no other
\* finding, and is then the only element.
C6_Threats ==
    pc = "returned" =>
        LET th == analytics.threats
            low == analytics.authentication.dmarc_compliance < 8000
            highs == SelectSeq(th, IsHigh)
        IN  /\ th # <<>>
            /\ \A i \in 1..Len(th) : th[i].level \in {"warning", "high", "success"}
            /\ (th[1].level = "warning") <=> low
            /\ \A i \in 2..Len(th) : th[i].level = "high"
            /\ \A ip \in Sources : Flagged(ip) <=> \E i \in 1..Len(highs) : highs[i].ip = ip
            /\ Len(highs) = Cardinality({ip \in Sources : Flagged(ip)})
            /\ \A i, j \in 1..Len(highs) : i < j => Rank(highs[i].ip) < Rank(highs[j].ip)
            /\ (\E i \in 1..Len(th) : th[i].level = "success")
                 <=> (~low /\ \A ip \in Sources : ~Flagged(ip))
            /\ (th[1].level = "success") => Len(th) = 1

\* C6 witness: a 'high' finding was returned for a source of the first ten
\* while a source behind the tenth, with compliance_rate < 50 and count > 10,
\* got none.
C6_Witness ==
    /\ pc = "returned"
    /\ \E i \in 1..Len(analytics.threats) : analytics.threats[i].level = "high"
    /\ \E ip \in Sources :
         /\ acc.ip_data[ip].dmarc_pass = 0
         /\ acc.ip_data[ip].count > 10
         /\ Rank(ip) > 10

(***************************************************************************)
(* Claims about the parser.                                                *)
(***************************************************************************)
\* the file is well-formed, has all its containers and only numbers in its
\* numeric elements; elements of its head or of its first record are absent
LacksOnlyFields(d) ==
    /\ d.wf
    /\ d.garbage = {}
    /\ d.missing \subseteq Leaves
    /\ Len(d.records) >= 1

FieldOr(d, place, tag, none) ==
    IF place <= 1 /\ tag \in d.missing THEN none
    ELSE IF place = 0 THEN d[tag] ELSE d.records[place][tag]

\* C8: in both variants a file whose head or record lacks fields is parsed
\* to a report that holds every record of the file in document order, a
\* missing numeric field being 0 and a missing text field None.
C8_MissingFieldsTolerated ==
    (pc = "parsed" /\ LacksOnlyFields(xml)) =>
        /\ parsed.kind = "report"
        /\ parsed.report.org_name = FieldOr(xml, 0, "org_name", None)
        /\ parsed.report.report_id = FieldOr(xml, 0, "report_id", None)
        /\ parsed.report.domain = FieldOr(xml, 0, "domain", None)
        /\ parsed.report.policy = FieldOr(xml, 0, "p", None)
        /\ parsed.report.date_begin = FieldOr(xml, 0, "begin", 0)
        /\ parsed.report.date_end = FieldOr(xml, 0, "end", 0)
        /\ Len(parsed.report.records) = Len(xml.records)
        /\ \A i \in 1..Len(xml.records) :
             /\ parsed.report.records[i].source_ip = FieldOr(xml, i, "source_ip", 0)
             /\ parsed.report.records[i].count = FieldOr(xml, i, "count", 0)
             /\ parsed.report.records[i].disposition = FieldOr(xml, i, "disposition", None)
             /\ parsed.report.records[i].dkim = FieldOr(xml, i, "dkim", None)
             /\ parsed.report.records[i].spf = FieldOr(xml, i, "spf", None)
             /\ parsed.report.records[i].header_from = FieldOr(xml, i, "header_from", None)

(***************************************************************************)
(* Claims about process_files and _extract_files.                          *)
(***************************************************************************)
AnalyticsFields ==
    {"summary", "authentication", "dispositions", "source_organizations",
     "top_sources", "timeline", "threats"}

IsFailure(r) ==
    /\ {"error", "files_processed"} \subseteq DOMAIN r
    /\ r.error # ""
    /\ r.files_processed = 0
    /\ AnalyticsFields \cap DOMAIN r = {}

IsSuccess(r) ==
    /\ AnalyticsFields \cup {"files_processed", "parse_errors"} \subseteq DOMAIN r
    /\ "error" \notin DOMAIN r

\* C1: process_files never raises; what it returns is either a failure (a
\* non-empty error, files_processed = 0, no analytics field) or a success
\* (every analytics field, files_processed, parse_errors, no error), never
\* both and never anything else.
C1_TwoResultShapes ==
    /\ pc \in {"extract", "parse", "done"}
    /\ pc = "done" =>
         /\ IsFailure(result) \/ IsSuccess(result)
         /\ ~(IsFailure(result) /\ IsSuccess(result))

\* an exception of the aggregation was folded into a failure, after a report
\* had been parsed
C1_Witness ==
    /\ pc = "done"
    /\ reports # <<>>
    /\ IsFailure(result)
    /\ result.error = "Processing failed"

\* C2: when at least one XML file of the batch parsed to a report, the result
\* is a success; an 'error' result comes only from no XML file found or no
\* report parsed.
C2_NoEscalation ==
    pc = "done" =>
        /\ reports # <<>> => IsSuccess(result)
        /\ "error" \in DOMAIN result => xml_files = <<>> \/ reports = <<>>

ParseStep == xml_idx' = xml_idx + 1

\* C7: a well-formed file of either schema variant without report_metadata
\* makes the parser return no report without raising, and adds nothing to
\* the reports of the batch.
C7_NoMetadataNoReport ==
    [][ParseStep /\ xml'.wf /\ "report_metadata" \in xml'.missing
          => parsed'.kind = "none" /\ reports' = reports]_vars

Lower(name) == [i \in 1..Len(name) |-> IF i = 1 THEN name[i] ELSE LowerToken(name[i])]

\* C9: a file is dispatched as the same name in lower case is: on the same
\* branch, and a name ending in any casing of .xml is returned as the single
\* XML path.
C9_CaseInsensitiveDispatch ==
    file_idx > 0 =>
        LET path == file_paths[file_idx]
        IN  /\ Branch(path.name) = Branch(Lower(path.name))
            /\ Branch(Lower(path.name)) = "xml" => extracted = <<path>>

Range(seq) == {seq[i] : i \in 1..Len(seq)}

\* the entries of a readable .zip, or of a readable .tar.gz
ArchiveEntries(path, c) ==
    IF Branch(path.name) = "zip" /\ c.kind = "zip" THEN c.entries
    ELSE IF EndsWith(path.name, <<"tar", "gz">>) /\ c.kind = "gz" /\ c.inner.kind = "tar"
         THEN c.inner.entries
    ELSE EmptyDict

\* C10: unwrapping a .zip of one report.xml, or a .tar.gz of two XML files,
\* returns exactly the paths of the extracted entries, each once, and parsing
\* such a path gives what parsing the entry's XML gives.
C10_ExactlyTheEntries ==
    file_idx > 0 =>
        LET path == file_paths[file_idx]
            entries == ArchiveEntries(path, fs[path])
        IN  DOMAIN entries # {} =>
              /\ Len(extracted) = Cardinality(DOMAIN entries)
              /\ Range(extracted) = {WorkPath(n) : n \in DOMAIN entries}
              /\ \A q \in Range(extracted) \cap {WorkPath(n) : n \in DOMAIN entries} :
                   ParseDmarcXml(DocOf(fs[q])) = ParseDmarcXml(DocOf(entries[q.name]))

\* C11: the calls of _extract_files nested in one call never number more
\* than the cap of 10, also for a file wrapped in more than 10 gzip layers.
C11_DepthCapped == depth <= 10

(***************************************************************************)
(* Claims about the value _generate_analytics returns for a list.          *)
(***************************************************************************)
DayOf(report) == report.date_begin \div DaySecs

\* the records of the list: <<i, j>> is the j-th record of the i-th report
Cells(list) ==
    UNION {{<<i, j>> : j \in 1..Len(list[i].records)} : i \in 1..Len(list)}

CellRecord(list, c) == list[c[1]].records[c[2]]

RECURSIVE SumOfCells(_, _)
SumOfCells(list, cells) ==
    IF cells = {} THEN 0
    ELSE LET c == CHOOSE x \in cells : TRUE
         IN  CellRecord(list, c).count + SumOfCells(list, cells \ {c})

CellsOnDay(list, day) == {c \in Cells(list) : DayOf(list[c[1]]) = day}

\* the timeline is sorted by date, strictly, and each entry holds the sums
\* over the records of the reports that begin on its day
TimelineSums(list, timeline) ==
    /\ \A i \in 1..(Len(timeline) - 1) : timeline[i].date < timeline[i + 1].date
    /\ \A i \in 1..Len(timeline) :
         /\ timeline[i].total = SumOfCells(list, CellsOnDay(list, timeline[i].date))
         /\ timeline[i].dmarc_pass =
              SumOfCells(list, {c \in CellsOnDay(list, timeline[i].date) :
                                  BothPass(CellRecord(list, c))})

\* C12, as stated: the timeline has exactly one entry for each distinct day of
\* the date_begin of the reports given, sorted ascending by date, each entry
\* holding the sums over the records of the reports of its day.
C12_DayOfEveryReport ==
    pc = "returned" =>
        /\ Len(analytics.timeline) = Cardinality({DayOf(reports[i]) : i \in 1..Len(reports)})
        /\ {analytics.timeline[i].date : i \in 1..Len(analytics.timeline)}
             = {DayOf(reports[i]) : i \in 1..Len(reports)}
        /\ TimelineSums(reports, analytics.timeline)

RecordedDays(list) ==
    {DayOf(list[i]) : i \in {k \in 1..Len(list) : list[k].records # <<>>}}

\* C12, amended: the timeline has exactly one entry for each distinct day of
\* the date_begin of the reports given that hold at least one record (a
\* report without records adds no entry), sorted ascending by date, each
\* entry holding the sums over the records of the reports of its day.
C12_DayOfEveryRecord ==
    pc = "returned" =>
        /\ Len(analytics.timeline) = Cardinality(RecordedDays(reports))
        /\ {analytics.timeline[i].date : i \in 1..Len(analytics.timeline)}
             = RecordedDays(reports)
        /\ TimelineSums(reports, analytics.timeline)

\* two reports of different days, both with records, given latest first
C12_Witness ==
    /\ pc = "returned"
    /\ Len(reports) = 2
    /\ DayOf(reports[1]) > DayOf(reports[2])
    /\ Len(reports[1].records) = 2
    /\ reports[2].records # <<>>
    /\ Len(analytics.timeline) = 2

(***************************************************************************)
(* Claims about failing extractions.                                       *)
(***************************************************************************)
\* a file of this name and content is one _extract_files cannot unwrap: its
\* suffix is not recognized, or its content is not the archive its suffix
\* announces, or its decompressed content is such a file in turn
RECURSIVE Unreadable(_, _)
Unreadable(name, c) ==
    LET branch == Branch(name)
        out == SubSeq(name, 1, Len(name) - 1)
    IN  CASE branch = "zip" -> c.kind # "zip"
          [] branch = "gz" ->
               \/ c.kind # "gz"
               \/ ~EndsWith(out, <<"xml">>) /\ Unreadable(out, c.inner)
          [] branch = "tar" -> ~IsTar(c)
          [] branch = "xml" -> FALSE
          [] OTHER -> TRUE

ExtractStep == file_idx' = file_idx + 1

\* C13: an input that cannot be unwrapped (corrupt .zip, .gz or .tar, also
\* below .gz layers, or an unknown suffix) yields an empty list without
\* raising; the loop goes on, and a later .xml input is still returned.
C13_FailureYieldsEmpty ==
    [][ExtractStep =>
         LET path == file_paths[file_idx + 1]
         IN  /\ pc' = "extract"
             /\ Unreadable(path.name, fs[path]) =>
                  extracted' = <<>> /\ xml_files' = xml_files
             /\ Branch(path.name) = "xml" =>
                  extracted' = <<path>> /\ xml_files' = Append(xml_files, path)]_vars

\* an archive that is corrupt below two .gz layers came first and returned
\* nothing, and the .xml input after it was returned
C13_Witness ==
    /\ file_idx = 2
    /\ Unreadable(file_paths[1].name, fs[file_paths[1]])
    /\ fs[file_paths[1]].kind = "gz"
    /\ fs[file_paths[1]].inner.kind = "gz"
    /\ fs[file_paths[1]].inner.inner.kind = "junk"
    /\ xml_files = <<file_paths[2]>>

\* C14: when every input of the batch lies in the extraction directory, the
\* XML paths process_files collects hold each file at most once, so that no
\* report is parsed and counted twice.
C14_EachFileOnce ==
    (\A i \in 1..Len(file_paths) : file_paths[i].dir = "work") =>
        /\ \A i, j \in 1..Len(xml_files) : i # j => xml_files[i] # xml_files[j]
        /\ Len(reports) <= Cardinality(FindXmlFiles(fs))

(***************************************************************************)
(* Claims about the breakdowns of the returned value.                      *)
(***************************************************************************)
RECURSIVE SumSeq(_)
SumSeq(seq) == IF seq = <<>> THEN 0 ELSE Head(seq) + SumSeq(Tail(seq))

RECURSIVE SumKeys(_, _)
SumKeys(dict, keys) ==
    IF keys = {} THEN 0
    ELSE LET k == CHOOSE x \in keys : TRUE
         IN  dict[k] + SumKeys(dict, keys \ {k})

SumDict(dict) == SumKeys(dict, DOMAIN dict)

\* C15: the disposition counts, the timeline totals and the counts of all
\* source IPs each add up to summary.total_messages, which is the sum of
\* count over all records given; the source organization counts add up to
\* summary.total_reports, the number of reports given.
C15_BreakdownsPartition ==
    pc = "returned" =>
        LET total == analytics.summary.total_messages
            ip_list == IpListUnsorted(acc)
        IN  /\ total = SumOfCells(reports, Cells(reports))
            /\ SumDict(analytics.dispositions) = total
            /\ SumSeq([i \in 1..Len(analytics.timeline) |-> analytics.timeline[i].total]) = total
            /\ Len(ip_list) = Cardinality({CellRecord(reports, c).source_ip : c \in Cells(reports)})
            /\ SumSeq([i \in 1..Len(ip_list) |-> ip_list[i].count]) = total
            /\ SumSeq([i \in 1..Len(analytics.top_sources) |-> analytics.top_sources[i].count])
                 = total
            /\ SumDict(analytics.source_organizations) = analytics.summary.total_reports
            /\ analytics.summary.total_reports = Len(reports)

\* two reports of two organizations and two days, with records that share a
\* disposition and a source IP across the reports
C15_Witness ==
    /\ pc = "returned"
    /\ Len(reports) = 2
    /\ Cardinality(DOMAIN analytics.source_organizations) = 2
    /\ Len(analytics.timeline) = 2
    /\ Cardinality(DOMAIN analytics.dispositions) = 2
    /\ Len(analytics.top_sources) = 2
    /\ analytics.summary.total_messages = 6
    /\ \E ip \in DOMAIN acc.ip_data : acc.ip_data[ip].count = 4

====
